---- MODULE Spec2Model ----
(***************************************************************************)
(* Model of the gamersDB API: src/server.js (Express over one shared       *)
(* node-sqlite3 connection) and the playable-games route of the older      *)
(* Oracle-backed "server copy.js".                                         *)
(*                                                                         *)
(* A JavaScript string is a sequence of one-character strings, so that     *)
(* split(','), trim() and GROUP_CONCAT are computed character by           *)
(* character.  undefined and SQL NULL are the one-element sequences        *)
(* Undefined and Null, whose element is no character of the alphabet.      *)
(***************************************************************************)
EXTENDS Integers, Sequences, FiniteSets, TLC

VARIABLES server, db, oracle, last, prior, issued, sched, calls, crashed, faults

vars == <<server, db, oracle, last, prior, issued, sched, calls, crashed, faults>>

\* the state of the statement queue of the connection and of the requests in
\* flight on it
inflight == <<sched, calls, crashed, faults>>

(***************************************************************************)
(* Bounds and input alphabets                                              *)
(***************************************************************************)
\* longest gamer_name in a request body
MaxNameLen == 2
\* longest `gamers` list in a request body
MaxListLen == 3
\* longest `players` query parameter
MaxParamLen == 4
\* largest players value of a stored game when the tables are drawn
MaxPlayers == 3
\* number of rows the games AUTOINCREMENT sequence may hand out
MaxGameId == 2
\* number of rows the game_gamers AUTOINCREMENT sequence may hand out
MaxGamerId == 2
\* number of requests in flight at the same time
MaxCalls == 2
\* number of statements the store fails while requests are in flight
MaxFaults == 1

Chars == {"a", " ", ","}

GameChars == {"a", "b"}

Undefined == <<"undefined">>

Null == <<"NULL">>

StringsUpTo(alphabet, n) == UNION {[1..k -> alphabet] : k \in 0..n}

(***************************************************************************)
(* JavaScript string primitives                                            *)
(***************************************************************************)
RECURSIVE trimStart(_)
trimStart(s) == IF s # <<>> /\ Head(s) = " " THEN trimStart(Tail(s)) ELSE s

RECURSIVE trimEnd(_)
trimEnd(s) ==
  IF s # <<>> /\ s[Len(s)] = " " THEN trimEnd(SubSeq(s, 1, Len(s) - 1)) ELSE s

\* String.prototype.trim
trim(s) == trimEnd(trimStart(s))

\* String.prototype.split(','): the empty string splits into one empty string
RECURSIVE split(_)
split(s) ==
  IF \E i \in 1..Len(s) : s[i] = ","
  THEN LET i == CHOOSE k \in 1..Len(s) :
                  s[k] = "," /\ \A j \in 1..(k - 1) : s[j] # ","
       IN  <<SubSeq(s, 1, i - 1)>> \o split(SubSeq(s, i + 1, Len(s)))
  ELSE <<s>>

\* Array.prototype.join(',') and the separator of GROUP_CONCAT
RECURSIVE join(_)
join(l) ==
  IF l = <<>> THEN <<>>
  ELSE IF Len(l) = 1 THEN l[1]
  ELSE l[1] \o <<",">> \o join(Tail(l))

IsNonEmpty(s) == s # <<>>

\* x.split(',').map(name => name.trim()).filter(name => name)
parseNames(s) ==
  LET parts == split(s)
  IN  SelectSeq([i \in 1..Len(parts) |-> trim(parts[i])], IsNonEmpty)

\* a JavaScript value used as a condition: undefined and '' are falsy
Truthy(s) == s # Undefined /\ s # <<>>

DigitChars == {"0", "1", "2", "3"}

DigitVal(c) == CASE c = "0" -> 0 [] c = "1" -> 1 [] c = "2" -> 2 [] c = "3" -> 3

RECURSIVE parseDigits(_, _)
parseDigits(s, acc) ==
  IF s # <<>> /\ Head(s) \in DigitChars
  THEN parseDigits(Tail(s), 10 * acc + DigitVal(Head(s)))
  ELSE acc

\* parseInt(ToString(v)): leading blanks, an optional sign, then the longest
\* run of digits; NaN when there is no digit
parseInt(txt) ==
  LET t    == trimStart(txt)
      neg  == t # <<>> /\ Head(t) = "-"
      body == IF t # <<>> /\ Head(t) \in {"-", "+"} THEN Tail(t) ELSE t
  IN  IF body = <<>> \/ Head(body) \notin DigitChars
      THEN [nan |-> TRUE, val |-> 0]
      ELSE [nan |-> FALSE,
            val |-> IF neg THEN 0 - parseDigits(body, 0) ELSE parseDigits(body, 0)]

\* a JSON value of the request body: undefined, a number or a string, with
\* its text as ToString gives it
JsUndefined == [type |-> "undefined", txt |-> <<>>]

JsNumber(txt) == [type |-> "number", txt |-> txt]

JsString(txt) == [type |-> "string", txt |-> txt]

\* !v is false: undefined, '' and the number 0 are falsy
TruthyValue(v) ==
  CASE v.type = "undefined" -> FALSE
    [] v.type = "string" -> v.txt # <<>>
    [] v.type = "number" -> parseInt(v.txt).val # 0

\* SQLite BINARY collation on the alphabets used
CharCode(c) ==
  CASE c = " " -> 32 [] c = "," -> 44 [] c = "a" -> 97 [] c = "b" -> 98

RECURSIVE StrLess(_, _)
StrLess(s, t) ==
  IF t = <<>> THEN FALSE
  ELSE IF s = <<>> THEN TRUE
  ELSE IF Head(s) # Head(t) THEN CharCode(Head(s)) < CharCode(Head(t))
  ELSE StrLess(Tail(s), Tail(t))

(***************************************************************************)
(* The SQLite database behind the one shared connection of server.js.      *)
(* games and game_gamers are the tables in rowid order, sqlite_sequence    *)
(* holds the AUTOINCREMENT counters (it is an ordinary table, so ROLLBACK   *)
(* restores it), and tx is <<>> in autocommit mode or <<snapshot>> while a *)
(* transaction is open on the connection.                                  *)
(***************************************************************************)
Tables(d) ==
  [games |-> d.games, game_gamers |-> d.game_gamers,
   sqlite_sequence |-> d.sqlite_sequence]

\* the schema of lines 18-38 right after creation: both tables empty
EmptyDb ==
  [games |-> <<>>, game_gamers |-> <<>>,
   sqlite_sequence |-> [games |-> 0, game_gamers |-> 0], tx |-> <<>>]

\* BEGIN TRANSACTION; inside a transaction it is an error, which a db.run
\* without callback does not hand to the handler
Begin(d) == IF d.tx = <<>> THEN [d EXCEPT !.tx = <<Tables(d)>>] ELSE d

\* COMMIT
Commit(d) == [d EXCEPT !.tx = <<>>]

\* mutant: the transaction is ended without undoing its writes
RollbackKeepsWrites(d) == [d EXCEPT !.tx = <<>>]

\* ROLLBACK; outside a transaction it is an error and changes nothing
Rollback(d) ==
  IF d.tx = <<>> THEN d
  ELSE [games |-> d.tx[1].games, game_gamers |-> d.tx[1].game_gamers,
        sqlite_sequence |-> d.tx[1].sqlite_sequence, tx |-> <<>>]

\* mutant: id INTEGER PRIMARY KEY without AUTOINCREMENT, the new id is one
\* more than the largest id in the table
InsertGameMaxRowid(d, game, players) ==
  LET id == IF d.games = <<>> THEN 1 ELSE d.games[Len(d.games)].id + 1
  IN  [d EXCEPT !.games = Append(@, [id |-> id, game |-> game, players |-> players]),
                !.sqlite_sequence.games = id]

\* INSERT INTO games (game, players) VALUES (?, ?); this.lastID is the new id
InsertGame(d, game, players) ==
  LET id == d.sqlite_sequence.games + 1
  IN  [d EXCEPT !.games = Append(@, [id |-> id, game |-> game, players |-> players]),
                !.sqlite_sequence.games = id]

\* INSERT INTO game_gamers (game_id, gamer_name) VALUES (?, ?).  No PRAGMA
\* foreign_keys is issued on the connection, so SQLite does not enforce the
\* FOREIGN KEY clause of line 32 and the insert takes any game_id.
InsertGamer(d, game_id, gamer_name) ==
  LET id == d.sqlite_sequence.game_gamers + 1
  IN  [d EXCEPT !.game_gamers =
                   Append(@, [id |-> id, game_id |-> game_id, gamer_name |-> gamer_name]),
                !.sqlite_sequence.game_gamers = id]

\* mutant: the rows of the game are left in game_gamers
DeleteGamersOfGameSkipped(d, game_id) == d

\* DELETE FROM game_gamers WHERE game_id = ?
DeleteGamersOfGame(d, game_id) ==
  [d EXCEPT !.game_gamers = SelectSeq(@, LAMBDA r : r.game_id # game_id)]

\* DELETE FROM games WHERE id = ?.  ON DELETE CASCADE is not enforced either.
DeleteGameRow(d, id) ==
  [d EXCEPT !.games = SelectSeq(@, LAMBDA r : r.id # id)]

\* DELETE FROM game_gamers WHERE game_id = ? AND gamer_name = ?
DeleteGamer(d, game_id, gamer_name) ==
  [d EXCEPT !.game_gamers =
     SelectSeq(@, LAMBDA r : ~(r.game_id = game_id /\ r.gamer_name = gamer_name))]

\* this.changes of a DELETE
Changes(before, after) == Len(before) - Len(after)

\* mutant: the existence check compares the row id with the game id
SelectGamerByRowId(d, game_id, gamer_name) ==
  \E i \in 1..Len(d.game_gamers) :
     d.game_gamers[i].id = game_id /\ d.game_gamers[i].gamer_name = gamer_name

\* SELECT id FROM game_gamers WHERE game_id = ? AND gamer_name = ?  (db.get:
\* is there a first row)
SelectGamer(d, game_id, gamer_name) ==
  \E i \in 1..Len(d.game_gamers) :
     d.game_gamers[i].game_id = game_id /\ d.game_gamers[i].gamer_name = gamer_name

\* the gamer_name values joined to one game, in rowid order
NamesOf(d, game_id) ==
  LET rows == SelectSeq(d.game_gamers, LAMBDA r : r.game_id = game_id)
  IN  [i \in 1..Len(rows) |-> rows[i].gamer_name]

\* DISTINCT: the first occurrence of every value
RECURSIVE Distinct(_)
Distinct(l) ==
  IF l = <<>> THEN <<>>
  ELSE LET init == Distinct(SubSeq(l, 1, Len(l) - 1))
           x    == l[Len(l)]
       IN  IF \E i \in 1..Len(init) : init[i] = x THEN init ELSE Append(init, x)

\* GROUP_CONCAT: NULL for a group without a non-NULL value
GroupConcat(l) == IF l = <<>> THEN Null ELSE join(l)

\* ORDER BY g.game ASC, rows of equal name kept in id order
RECURSIVE OrderByGame(_)
OrderByGame(rows) ==
  IF rows = <<>> THEN <<>>
  ELSE LET i == CHOOSE k \in 1..Len(rows) :
                  /\ \A j \in 1..Len(rows) : ~StrLess(rows[j].game, rows[k].game)
                  /\ \A j \in 1..(k - 1) : rows[j].game # rows[k].game
           rest == [j \in 1..(Len(rows) - 1) |-> IF j < i THEN rows[j] ELSE rows[j + 1]]
       IN  <<rows[i]>> \o OrderByGame(rest)

\* x || '' in the handlers: NULL and '' become ''
OrEmpty(s) == IF s = Null THEN <<>> ELSE s

(***************************************************************************)
(* The statement queue of the node-sqlite3 Database object: the calls that *)
(* wait, whether the call last started holds the connection for itself     *)
(* (locked), and the statements that run (pending).  A statement issued    *)
(* inside db.serialize() is exclusive: it starts when nothing else runs    *)
(* and nothing starts while it runs.                                       *)
(***************************************************************************)
\* the queue of new sqlite3.Database(dbPath) once the schema is created
Idle == [queue |-> <<>>, locked |-> FALSE, pending |-> {}]

\* Database::Schedule: the statement starts at once, or waits in the queue
\* when something runs and the connection is locked or in serialize mode
Schedule(s, st, serialize) ==
  IF (s.locked \/ serialize) /\ s.pending # {}
  THEN [s EXCEPT !.queue = Append(@, [st |-> st, exclusive |-> serialize])]
  ELSE [s EXCEPT !.locked = FALSE, !.pending = @ \cup {st}]

\* Database::Process: start the calls at the head of the queue, an exclusive
\* one only when nothing runs
RECURSIVE Process(_)
Process(s) ==
  IF (~s.locked \/ s.pending = {}) /\ s.queue # <<>>
  THEN LET call == Head(s.queue)
       IN  IF call.exclusive /\ s.pending # {} THEN s
           ELSE Process([queue |-> Tail(s.queue), locked |-> call.exclusive,
                         pending |-> s.pending \cup {call.st}])
  ELSE s

(***************************************************************************)
(* The two query helpers of server.js                                      *)
(***************************************************************************)
\* mutant: JOIN in place of LEFT JOIN, a game without gamers has no row
getGamesWithGamersInnerJoin(d) ==
  LET owned == SelectSeq(d.games, LAMBDA g : NamesOf(d, g.id) # <<>>)
  IN  OrderByGame([i \in 1..Len(owned) |->
         [id |-> owned[i].id, game |-> owned[i].game, players |-> owned[i].players,
          gamer_list |-> GroupConcat(NamesOf(d, owned[i].id))]])

\* the rows of the query of getGamesWithGamers() (no WHERE clause)
getGamesWithGamers(d) ==
  OrderByGame([i \in 1..Len(d.games) |->
     [id |-> d.games[i].id, game |-> d.games[i].game, players |-> d.games[i].players,
      gamer_list |-> GroupConcat(NamesOf(d, d.games[i].id))]])

\* mutant: HAVING g.players <= ?
getPlayableGamesAtMost(d, playerNames) ==
  LET InGroup(n) == \E k \in 1..Len(playerNames) : playerNames[k] = n
      row(g) ==
        [id |-> g.id, game |-> g.game, players |-> g.players,
         gamer_list |-> GroupConcat(Distinct(NamesOf(d, g.id))),
         owners_in_group |->
            GroupConcat(Distinct(SelectSeq(NamesOf(d, g.id), InGroup)))]
      grouped == [i \in 1..Len(d.games) |-> row(d.games[i])]
      having(r) == r.players <= Len(playerNames) /\ r.owners_in_group # Null
  IN  OrderByGame(SelectSeq(grouped, having))

\* mutant: HAVING g.players > ?
getPlayableGamesAbove(d, playerNames) ==
  LET InGroup(n) == \E k \in 1..Len(playerNames) : playerNames[k] = n
      row(g) ==
        [id |-> g.id, game |-> g.game, players |-> g.players,
         gamer_list |-> GroupConcat(Distinct(NamesOf(d, g.id))),
         owners_in_group |->
            GroupConcat(Distinct(SelectSeq(NamesOf(d, g.id), InGroup)))]
      grouped == [i \in 1..Len(d.games) |-> row(d.games[i])]
      having(r) == r.players > Len(playerNames) /\ r.owners_in_group # Null
  IN  OrderByGame(SelectSeq(grouped, having))

\* mutant: HAVING without owners_in_group IS NOT NULL
getPlayableGamesAnyOwner(d, playerNames) ==
  LET InGroup(n) == \E k \in 1..Len(playerNames) : playerNames[k] = n
      row(g) ==
        [id |-> g.id, game |-> g.game, players |-> g.players,
         gamer_list |-> GroupConcat(Distinct(NamesOf(d, g.id))),
         owners_in_group |->
            GroupConcat(Distinct(SelectSeq(NamesOf(d, g.id), InGroup)))]
      grouped == [i \in 1..Len(d.games) |-> row(d.games[i])]
      having(r) == r.players >= Len(playerNames)
  IN  OrderByGame(SelectSeq(grouped, having))

\* the rows of the query of getPlayableGames(playerNames)
getPlayableGames(d, playerNames) ==
  LET InGroup(n) == \E k \in 1..Len(playerNames) : playerNames[k] = n
      row(g) ==
        [id |-> g.id, game |-> g.game, players |-> g.players,
         gamer_list |-> GroupConcat(Distinct(NamesOf(d, g.id))),
         owners_in_group |->
            GroupConcat(Distinct(SelectSeq(NamesOf(d, g.id), InGroup)))]
      grouped == [i \in 1..Len(d.games) |-> row(d.games[i])]
      having(r) == r.players >= Len(playerNames) /\ r.owners_in_group # Null
  IN  OrderByGame(SelectSeq(grouped, having))

(***************************************************************************)
(* The route handlers of server.js.  Each takes the database, the request  *)
(* and F, the set of positions (in issue order) of the data statements     *)
(* that the store fails (disk full, I/O error, lock), and gives the        *)
(* database after the handler and all its callbacks have run, the response *)
(* and stmts, the number of statements the handler issued.                 *)
(***************************************************************************)
\* res.json(body): status 200
Json(id, items) == [status |-> 200, error |-> "", id |-> id, items |-> items]

\* res.status(code).json({ error })
Fail(code, error) == [status |-> code, error |-> error, id |-> 0, items |-> <<>>]

Result(d, res, stmts, gameId, insertErrors) ==
  [db |-> d, res |-> res, stmts |-> stmts, gameId |-> gameId,
   insertErrors |-> insertErrors]

\* GET /api/games/all
listAll(d, F) ==
  IF 1 \in F
  THEN Result(d, Fail(500, "Failed to fetch games"), 1, 0, 0)
  ELSE LET games == getGamesWithGamers(d)
           items == [i \in 1..Len(games) |->
                       [rowid |-> games[i].id, game |-> games[i].game,
                        players |-> games[i].players,
                        gamer_list |-> OrEmpty(games[i].gamer_list),
                        owners_in_group |-> Null]]
       IN  Result(d, Json(0, items), 1, 0, 0)

\* GET /api/games/playable
playable(d, playersParam, F) ==
  IF ~Truthy(playersParam)
  THEN Result(d, Fail(400, "Players parameter is required"), 0, 0, 0)
  ELSE LET playerNames == parseNames(playersParam)
       IN  IF Len(playerNames) = 0
           THEN Result(d, Fail(400, "At least one player name is required"), 0, 0, 0)
           ELSE IF 1 \in F
           THEN Result(d, Fail(500, "Failed to fetch playable games"), 1, 0, 0)
           ELSE LET games == getPlayableGames(d, playerNames)
                    items == [i \in 1..Len(games) |->
                                [rowid |-> games[i].id, game |-> games[i].game,
                                 players |-> games[i].players,
                                 gamer_list |-> OrEmpty(games[i].gamer_list),
                                 owners_in_group |-> OrEmpty(games[i].owners_in_group)]]
                IN  Result(d, Json(0, items), 1, 0, 0)

\* the stmt.run calls of the forEach over gamerNames, from the k-th on; the
\* (k+1)-th data statement of the handler is the insert of gamerNames[k]
RECURSIVE insertGamers(_, _, _, _, _)
insertGamers(d, gameId, gamerNames, F, k) ==
  IF k > Len(gamerNames) THEN d
  ELSE insertGamers(IF (k + 1) \in F THEN d ELSE InsertGamer(d, gameId, gamerNames[k]),
                    gameId, gamerNames, F, k + 1)

\* the names the create handler inserts: gamers && gamers.trim(), then the split
gamerNamesOf(gamers) ==
  IF Truthy(gamers) /\ trim(gamers) # <<>> THEN parseNames(gamers) ELSE <<>>

\* POST /api/games/all
createGame(d, body, F) ==
  IF ~Truthy(body.game) \/ ~TruthyValue(body.players)
  THEN Result(d, Fail(400, "Game name and players are required"), 0, 0, 0)
  ELSE LET d1 == Begin(d)
           p  == parseInt(body.players.txt)
       IN  \* NaN is bound as NULL and players is NOT NULL
           IF 1 \in F \/ p.nan
           THEN Result(Rollback(d1), Fail(500, "Failed to add game"), 3, 0, 0)
           ELSE LET d2 == InsertGame(d1, body.game, p.val)
                    gameId == d2.sqlite_sequence.games
                    gamerNames == gamerNamesOf(body.gamers)
                    n == Len(gamerNames)
                    d3 == insertGamers(d2, gameId, gamerNames, F, 1)
                    insertErrors == Cardinality(F \cap 2..(n + 1))
                IN  IF n > 0 /\ insertErrors > 0
                    THEN Result(Rollback(d3), Fail(500, "Failed to add some gamers"),
                                n + 3, gameId, insertErrors)
                    ELSE Result(Commit(d3), Json(gameId, <<>>), n + 3, gameId, 0)

\* mutant: COMMIT where the handler rolls back a delete that matched no game
deleteGameCommitsNotFound(d, gameId, F) ==
  LET d1 == Begin(d)
  IN  IF 1 \in F
      THEN Result(Rollback(d1), Fail(500, "Failed to delete game gamers"), 3, 0, 0)
      ELSE LET d2 == DeleteGamersOfGame(d1, gameId)
           IN  IF 2 \in F
               THEN Result(Rollback(d2), Fail(500, "Failed to delete game"), 4, 0, 0)
               ELSE LET d3 == DeleteGameRow(d2, gameId)
                    IN  IF Changes(d2.games, d3.games) = 0
                        THEN Result(Commit(d3), Fail(404, "Game not found"), 4, 0, 0)
                        ELSE Result(Commit(d3), Json(0, <<>>), 4, 0, 0)

\* DELETE /api/games/game/:id
deleteGame(d, gameId, F) ==
  LET d1 == Begin(d)
  IN  IF 1 \in F
      THEN Result(Rollback(d1), Fail(500, "Failed to delete game gamers"), 3, 0, 0)
      ELSE LET d2 == DeleteGamersOfGame(d1, gameId)
           IN  IF 2 \in F
               THEN Result(Rollback(d2), Fail(500, "Failed to delete game"), 4, 0, 0)
               ELSE LET d3 == DeleteGameRow(d2, gameId)
                    IN  IF Changes(d2.games, d3.games) = 0
                        THEN Result(Rollback(d3), Fail(404, "Game not found"), 4, 0, 0)
                        ELSE Result(Commit(d3), Json(0, <<>>), 4, 0, 0)

\* POST /api/games/game/:id/gamers
addGamer(d, gameId, gamer_name, F) ==
  IF ~Truthy(gamer_name) \/ ~Truthy(trim(gamer_name))
  THEN Result(d, Fail(400, "Gamer name is required"), 0, 0, 0)
  ELSE IF 1 \in F
  THEN Result(d, Fail(500, "Database error"), 1, 0, 0)
  ELSE IF SelectGamer(d, gameId, trim(gamer_name))
  THEN Result(d, Fail(400, "Gamer already exists for this game"), 1, 0, 0)
  ELSE IF 2 \in F
  THEN Result(d, Fail(500, "Failed to add gamer"), 2, 0, 0)
  ELSE LET d1 == InsertGamer(d, gameId, trim(gamer_name))
       IN  Result(d1, Json(d1.sqlite_sequence.game_gamers, <<>>), 2, 0, 0)

\* mutant: this.changes is not looked at
removeGamerAlwaysOk(d, gameId, gamer_name, F) ==
  IF ~Truthy(gamer_name)
  THEN Result(d, Fail(400, "Gamer name is required"), 0, 0, 0)
  ELSE IF 1 \in F
  THEN Result(d, Fail(500, "Failed to remove gamer"), 1, 0, 0)
  ELSE Result(DeleteGamer(d, gameId, gamer_name), Json(0, <<>>), 1, 0, 0)

\* DELETE /api/games/game/:id/gamers
removeGamer(d, gameId, gamer_name, F) ==
  IF ~Truthy(gamer_name)
  THEN Result(d, Fail(400, "Gamer name is required"), 0, 0, 0)
  ELSE IF 1 \in F
  THEN Result(d, Fail(500, "Failed to remove gamer"), 1, 0, 0)
  ELSE LET d1 == DeleteGamer(d, gameId, gamer_name)
       IN  IF Changes(d.game_gamers, d1.game_gamers) = 0
           THEN Result(d, Fail(404, "Gamer not found for this game"), 1, 0, 0)
           ELSE Result(d1, Json(0, <<>>), 1, 0, 0)

(***************************************************************************)
(* The playable route of "server copy.js" over the Oracle table            *)
(* games(rowid, game, players, gamers), gamers being a comma-joined list   *)
(* or NULL (Oracle stores '' as NULL).                                     *)
(***************************************************************************)
\* players?.split(',').map(p => p.trim()), for a players that is a string
playerListOf(players) ==
  IF players = Undefined THEN <<>>
  ELSE LET parts == split(players) IN [i \in 1..Len(parts) |-> trim(parts[i])]

\* row[3]?.split(',').map(g => g.trim()) || []
ownersOf(gamers) ==
  IF gamers = Null THEN <<>>
  ELSE LET parts == split(gamers) IN [i \in 1..Len(parts) |-> trim(parts[i])]

\* GET /api/games/playable of "server copy.js"
copyPlayable(rows, players, F) ==
  LET playerList == playerListOf(players)
      includes(owner) == \E k \in 1..Len(playerList) : playerList[k] = owner
      item(row) ==
        [rowid |-> row.rowid, game |-> row.game, players |-> row.players,
         gamer_list |-> row.gamers,
         owners_in_group |-> join(SelectSeq(ownersOf(row.gamers), includes))]
      mapped == [i \in 1..Len(rows) |-> item(rows[i])]
      keep(g) == g.owners_in_group # <<>> /\ g.players >= Len(playerList)
  IN  IF 1 \in F
      THEN Result(EmptyDb, Fail(500, "err.message"), 1, 0, 0)
      \* playerList.includes on undefined throws as soon as a row has an owner
      ELSE IF players = Undefined
      THEN IF \E i \in 1..Len(rows) : ownersOf(rows[i].gamers) # <<>>
           THEN Result(EmptyDb, Fail(500, "err.message"), 1, 0, 0)
           ELSE Result(EmptyDb, Json(0, <<>>), 1, 0, 0)
      ELSE Result(EmptyDb, Json(0, SelectSeq(mapped, keep)), 1, 0, 0)

(***************************************************************************)
(* Requests.  last is the request being traced: its route, parameters, the *)
(* failed statement positions, and what the handler answered.  Tracing     *)
(* starts at any request of a run (the requests before it leave last at    *)
(* NoRequest) and covers that request and, when the client sends the very  *)
(* same request again, the repetition; prior is then the status the first  *)
(* of the two was answered with, and 0 otherwise.                          *)
(***************************************************************************)
\* req.params.id, compared and stored under INTEGER affinity
Ids == 1..MaxGameId

\* req.body.game
GameInputs == StringsUpTo(GameChars, 1)

\* req.body.players
PlayersInputs ==
  {JsUndefined, JsNumber(<<"0">>), JsNumber(<<"2">>), JsNumber(<<"-", "1">>),
   JsString(<<"x">>)}

\* req.body.gamers
GamersInputs == {Undefined} \cup StringsUpTo(Chars, MaxListLen)

\* req.body.gamer_name
NameInputs == {Undefined} \cup StringsUpTo({"a", " "}, MaxNameLen)

\* req.query.players
ParamInputs == {Undefined} \cup StringsUpTo(Chars, MaxParamLen)

NoRequest ==
  [op |-> "none", req |-> <<>>, F |-> {}, res |-> Json(0, <<>>), stmts |-> 0,
   gameId |-> 0, insertErrors |-> 0]

Served(op, req, F, r) ==
  [op |-> op, req |-> req, F |-> F, res |-> r.res, stmts |-> r.stmts,
   gameId |-> r.gameId, insertErrors |-> r.insertErrors]

\* the AUTOINCREMENT counters stay within the bounds of the model
WithinBounds(d) ==
  /\ d.sqlite_sequence.games <= MaxGameId
  /\ d.sqlite_sequence.game_gamers <= MaxGamerId

\* a request of a run: served, and traced or not
Serve(op, req, F, r) ==
  /\ WithinBounds(r.db)
  /\ db' = r.db
  /\ \E traced \in BOOLEAN : last' = IF traced THEN Served(op, req, F, r) ELSE NoRequest
  /\ prior' = 0
  /\ issued' = IF op = "createGame" /\ r.res.status = 200
               THEN issued \cup {r.res.id} ELSE issued
  /\ UNCHANGED <<server, oracle>>
  /\ UNCHANGED inflight

\* the positions of the data statements a request can issue
Positions(op, req) ==
  CASE op = "createGame" -> 1..(Len(gamerNamesOf(req.gamers)) + 1)
    [] op = "deleteGame" -> {1, 2}
    [] op = "addGamer" -> {1, 2}
    [] OTHER -> {1}

\* the route table of server.js
Handle(op, req, d, F) ==
  CASE op = "createGame" -> createGame(d, req, F)
    [] op = "deleteGame" -> deleteGame(d, req.id, F)
    [] op = "addGamer" -> addGamer(d, req.id, req.gamer_name, F)
    [] op = "removeGamer" -> removeGamer(d, req.id, req.gamer_name, F)
    [] op = "listAll" -> listAll(d, F)
    [] op = "playable" -> playable(d, req.players, F)

Init ==
  /\ server = "server.js"
  /\ db = EmptyDb
  /\ oracle = <<>>
  /\ last = NoRequest
  /\ prior = 0
  /\ issued = {}
  /\ sched = Idle
  /\ calls = <<>>
  /\ crashed = FALSE
  /\ faults = 0

CreateGame ==
  /\ server = "server.js"
  /\ last = NoRequest
  /\ \E game \in GameInputs, players \in PlayersInputs, gamers \in GamersInputs :
       LET body == [game |-> game, players |-> players, gamers |-> gamers]
       IN  \E F \in SUBSET Positions("createGame", body) :
              Serve("createGame", body, F, createGame(db, body, F))

DeleteGame ==
  /\ server = "server.js"
  /\ last = NoRequest
  /\ \E id \in Ids, F \in SUBSET {1, 2} :
       Serve("deleteGame", [id |-> id], F, deleteGame(db, id, F))

AddGamer ==
  /\ server = "server.js"
  /\ last = NoRequest
  /\ \E id \in Ids, gamer_name \in NameInputs, F \in SUBSET {1, 2} :
       Serve("addGamer", [id |-> id, gamer_name |-> gamer_name], F,
             addGamer(db, id, gamer_name, F))

RemoveGamer ==
  /\ server = "server.js"
  /\ last = NoRequest
  /\ \E id \in Ids, gamer_name \in NameInputs, F \in SUBSET {1} :
       Serve("removeGamer", [id |-> id, gamer_name |-> gamer_name], F,
             removeGamer(db, id, gamer_name, F))

ListAll ==
  /\ server = "server.js"
  /\ last = NoRequest
  /\ \E F \in SUBSET {1} :
       Serve("listAll", <<>>, F, listAll(db, F))

Playable ==
  /\ server = "server.js"
  /\ last = NoRequest
  /\ \E playersParam \in ParamInputs, F \in SUBSET {1} :
       LET r == playable(db, playersParam, F)
       IN  /\ last' = Served("playable", [players |-> playersParam], F, r)
           /\ UNCHANGED <<server, db, oracle, prior, issued>>
           /\ UNCHANGED inflight

\* the client sends the traced request once more (traced for the routes
\* that delete or add rows one request at a time)
Again ==
  /\ server = "server.js"
  /\ last.op \in {"deleteGame", "addGamer", "removeGamer"}
  /\ prior = 0
  /\ \E F \in SUBSET Positions(last.op, last.req) :
       LET r == Handle(last.op, last.req, db, F)
       IN  /\ WithinBounds(r.db)
           /\ db' = r.db
           /\ last' = Served(last.op, last.req, F, r)
           /\ prior' = last.res.status
           /\ UNCHANGED <<server, oracle, issued>>
           /\ UNCHANGED inflight

\* the client that has just added a gamer asks for that gamer to be removed,
\* with the id and the gamer_name of its add request
RemoveAdded ==
  /\ server = "server.js"
  /\ last.op = "addGamer"
  /\ last.res.status = 200
  /\ prior = 0
  /\ \E F \in SUBSET {1} :
       LET r == removeGamer(db, last.req.id, last.req.gamer_name, F)
       IN  /\ db' = r.db
           /\ last' = Served("removeGamer", last.req, F, r)
           /\ UNCHANGED <<server, oracle, prior, issued>>
           /\ UNCHANGED inflight

Next ==
  \/ CreateGame
  \/ DeleteGame
  \/ AddGamer
  \/ RemoveGamer
  \/ ListAll
  \/ Playable
  \/ Again
  \/ RemoveAdded

Spec == Init /\ [][Next]_vars

(***************************************************************************)
(* The playable query as a function of the tables: the tables are drawn    *)
(* from the contents the routes can leave behind, and one query is made,   *)
(* against server.js or against "server copy.js".                          *)
(***************************************************************************)
Range(f) == {f[i] : i \in DOMAIN f}

\* the names the routes of server.js store: trimmed and not empty
StoredNames == {trim(n) : n \in NameInputs \ {Undefined}} \ {<<>>}

\* games holding n rows, ids in order
GamesTables ==
  UNION {{[i \in 1..n |-> [id |-> i, game |-> f[i].game, players |-> f[i].players]] :
            f \in [1..n -> [game : GameInputs \ {<<>>}, players : 1..MaxPlayers]]} :
         n \in 0..MaxGameId}

\* game_gamers holding m rows; a row may name an id that games does not hold
GamersTables ==
  UNION {{[i \in 1..m |-> [id |-> i, game_id |-> f[i].game_id,
                           gamer_name |-> f[i].gamer_name]] :
            f \in [1..m -> [game_id : Ids, gamer_name : StoredNames]]} :
         m \in 0..MaxGamerId}

DrawnDbs ==
  {[games |-> g, game_gamers |-> e,
    sqlite_sequence |-> [games |-> Len(g), game_gamers |-> Len(e)], tx |-> <<>>] :
     g \in GamesTables, e \in GamersTables}

\* the Oracle table: no row, or one row with any gamers list
OracleTables ==
  {<<>>} \cup
  {<<[rowid |-> 1, game |-> <<"a">>, players |-> p, gamers |-> g]>> :
     p \in 1..MaxPlayers,
     g \in {Null} \cup (StringsUpTo(Chars, MaxListLen) \ {<<>>})}

InitPlayable ==
  /\ server \in {"server.js", "server copy.js"}
  /\ IF server = "server.js"
     THEN db \in DrawnDbs /\ oracle = <<>>
     ELSE db = EmptyDb /\ oracle \in OracleTables
  /\ last = NoRequest
  /\ prior = 0
  /\ issued = {}
  /\ sched = Idle
  /\ calls = <<>>
  /\ crashed = FALSE
  /\ faults = 0

CopyPlayable ==
  /\ server = "server copy.js"
  /\ last = NoRequest
  /\ \E players \in ParamInputs, F \in SUBSET {1} :
       LET r == copyPlayable(oracle, players, F)
       IN  /\ last' = Served("playable", [players |-> players], F, r)
           /\ UNCHANGED <<server, db, oracle, prior, issued>>
           /\ UNCHANGED inflight

NextPlayable ==
  \/ Playable
  \/ CopyPlayable

SpecPlayable == InitPlayable /\ [][NextPlayable]_vars

(***************************************************************************)
(* Requests in flight at the same time on the one connection.  A handler   *)
(* runs when its request arrives and issues its first statements; every    *)
(* later statement is issued by the callback of the one before, which      *)
(* node-sqlite3 calls when that statement has run, outside db.serialize(). *)
(* calls holds, per request, what its handler and callbacks have done.     *)
(* BEGIN TRANSACTION, COMMIT and ROLLBACK are run without callback: when   *)
(* one of them fails, node-sqlite3 emits 'error' on the Statement, nothing *)
(* listens, and the uncaught error ends the process.                       *)
(***************************************************************************)
Stmt(c, sql, k) == [call |-> c, sql |-> sql, k |-> k]

\* no res.json() yet
NoResponse == [status |-> 0, error |-> "", id |-> 0, items |-> <<>>]

\* a request whose handler starts: the variables its closures share
NewCall(op, req) ==
  [op |-> op, req |-> req, res |-> NoResponse, responses |-> 0, gameId |-> 0,
   insertCount |-> 0, insertErrors |-> 0, began |-> 0, ended |-> 0]

\* res.json(...) or res.status(...).json(...) of request c
Respond(cs, c, res) == [cs EXCEPT ![c].res = res, ![c].responses = @ + 1]

\* db.run(sql, ...) called from a callback
Run(w, c, sql) == [w EXCEPT !.sched = Schedule(@, Stmt(c, sql, 0), FALSE)]

\* res.json(...) called from a callback
Answer(w, c, res) == [w EXCEPT !.calls = Respond(@, c, res)]

\* the statements that run without a callback
Unhandled == {"BEGIN", "COMMIT", "ROLLBACK"}

\* the statements the store can be made to fail
DataStatements ==
  {"INSERT games", "stmt.run", "DELETE game_gamers", "DELETE games",
   "SELECT game_gamers", "INSERT game_gamers"}

\* does the statement fail: BEGIN inside a transaction, COMMIT and ROLLBACK
\* outside one, NULL (NaN) for players, or a failure of the store
SqlError(st, d, req, fail) ==
  CASE st.sql = "BEGIN" -> d.tx # <<>>
    [] st.sql \in {"COMMIT", "ROLLBACK"} -> d.tx = <<>>
    [] st.sql = "INSERT games" -> fail \/ parseInt(req.players.txt).nan
    [] st.sql = "prepare" -> FALSE
    [] OTHER -> fail

\* function(err) of the INSERT INTO games, lines 163-211
afterInsertGame(w, c, err) ==
  LET req == w.calls[c].req
  IN  IF err
      THEN Answer(Run(w, c, "ROLLBACK"), c, Fail(500, "Failed to add game"))
      ELSE LET d2 == InsertGame(w.db, req.game, parseInt(req.players.txt).val)
               gameId == d2.sqlite_sequence.games
               w2 == [w EXCEPT !.db = d2, !.calls[c].gameId = gameId]
           IN  IF Len(gamerNamesOf(req.gamers)) > 0
               THEN Run(w2, c, "prepare")
               ELSE Answer(Run(w2, c, "COMMIT"), c, Json(gameId, <<>>))

\* function(err) of the k-th stmt.run, lines 182-201
afterStmtRun(w, c, k, err) ==
  LET call == w.calls[c]
      gamerNames == gamerNamesOf(call.req.gamers)
      w2 == IF err
            THEN [w EXCEPT !.calls[c].insertErrors = @ + 1]
            ELSE [w EXCEPT !.db = InsertGamer(@, call.gameId, gamerNames[k]),
                           !.calls[c].insertCount = @ + 1]
      done == w2.calls[c].insertCount + w2.calls[c].insertErrors
  IN  IF done # Len(gamerNames) THEN w2
      ELSE IF w2.calls[c].insertErrors > 0
      THEN Answer(Run(w2, c, "ROLLBACK"), c, Fail(500, "Failed to add some gamers"))
      ELSE Answer(Run(w2, c, "COMMIT"), c, Json(call.gameId, <<>>))

\* function(err) of DELETE FROM game_gamers, lines 224-245
afterDeleteGamers(w, c, err) ==
  IF err
  THEN Answer(Run(w, c, "ROLLBACK"), c, Fail(500, "Failed to delete game gamers"))
  ELSE Run([w EXCEPT !.db = DeleteGamersOfGame(@, w.calls[c].req.id)], c, "DELETE games")

\* function(err) of DELETE FROM games, lines 231-244
afterDeleteGame(w, c, err) ==
  IF err
  THEN Answer(Run(w, c, "ROLLBACK"), c, Fail(500, "Failed to delete game"))
  ELSE LET d3 == DeleteGameRow(w.db, w.calls[c].req.id)
           w2 == [w EXCEPT !.db = d3]
       IN  IF Changes(w.db.games, d3.games) = 0
           THEN Answer(Run(w2, c, "ROLLBACK"), c, Fail(404, "Game not found"))
           ELSE Answer(Run(w2, c, "COMMIT"), c, Json(0, <<>>))

\* (err, row) of the SELECT of add gamer, lines 262-283
afterSelectGamer(w, c, err) ==
  LET req == w.calls[c].req
  IN  IF err THEN Answer(w, c, Fail(500, "Database error"))
      ELSE IF SelectGamer(w.db, req.id, trim(req.gamer_name))
      THEN Answer(w, c, Fail(400, "Gamer already exists for this game"))
      ELSE Run(w, c, "INSERT game_gamers")

\* function(err) of the INSERT of add gamer, lines 275-281
afterInsertGamer(w, c, err) ==
  LET req == w.calls[c].req
  IN  IF err THEN Answer(w, c, Fail(500, "Failed to add gamer"))
      ELSE LET d1 == InsertGamer(w.db, req.id, trim(req.gamer_name))
           IN  Answer([w EXCEPT !.db = d1], c, Json(d1.sqlite_sequence.game_gamers, <<>>))

\* the statement has run: its effect on the store and its callback
Callback(w, st, err) ==
  LET c == st.call
  IN  CASE st.sql = "BEGIN" ->
             [w EXCEPT !.db = Begin(@), !.calls[c].began = @ + 1]
        [] st.sql = "COMMIT" ->
             [w EXCEPT !.db = Commit(@), !.calls[c].ended = @ + 1]
        [] st.sql = "ROLLBACK" ->
             [w EXCEPT !.db = Rollback(@), !.calls[c].ended = @ + 1]
        [] st.sql = "INSERT games" -> afterInsertGame(w, c, err)
        [] st.sql = "prepare" -> w
        [] st.sql = "stmt.run" -> afterStmtRun(w, c, st.k, err)
        [] st.sql = "DELETE game_gamers" -> afterDeleteGamers(w, c, err)
        [] st.sql = "DELETE games" -> afterDeleteGame(w, c, err)
        [] st.sql = "SELECT game_gamers" -> afterSelectGamer(w, c, err)
        [] st.sql = "INSERT game_gamers" -> afterInsertGamer(w, c, err)

\* STATEMENT_END: the statement no longer runs, the prepared statement starts
\* the next of its n queued runs, and the queue of the connection goes on
StatementEnd(s, st, n) ==
  LET next == IF st.sql = "prepare" THEN {Stmt(st.call, "stmt.run", 1)}
              ELSE IF st.sql = "stmt.run" /\ st.k < n
              THEN {Stmt(st.call, "stmt.run", st.k + 1)}
              ELSE {}
  IN  Process([s EXCEPT !.pending = (@ \ {st}) \cup next])

\* the stores the requests find: empty, one game with an owner, and that store
\* with a game_gamers row of a game that does not exist
OneGame ==
  createGame(EmptyDb, [game |-> <<"a">>, players |-> JsNumber(<<"2">>),
                       gamers |-> <<"a">>], {}).db

SeedDbs == {EmptyDb, OneGame, addGamer(OneGame, 2, <<"a">>, {}).db}

\* the bodies of POST /api/games/all in flight
CreateCalls ==
  [game : {<<"b">>},
   players : {JsNumber(<<"2">>), JsNumber(<<"0">>), JsString(<<"x">>)},
   gamers : {Undefined, <<"a">>, <<"a", ",", "a">>}]

\* the bodies of POST /api/games/game/:id/gamers in flight
AddCalls == [id : Ids, gamer_name : {<<>>, <<"a">>}]

InitConcurrent ==
  /\ server = "server.js"
  /\ db \in SeedDbs
  /\ oracle = <<>>
  /\ last = NoRequest
  /\ prior = 0
  /\ issued = {}
  /\ sched = Idle
  /\ calls = <<>>
  /\ crashed = FALSE
  /\ faults = 0

\* POST /api/games/all arrives: lines 149-158 and 160-162
ArriveCreate ==
  /\ ~crashed
  /\ Len(calls) < MaxCalls
  /\ \E body \in CreateCalls :
       LET c  == Len(calls) + 1
           cs == Append(calls, NewCall("createGame", body))
       IN  IF ~Truthy(body.game) \/ ~TruthyValue(body.players)
           THEN /\ calls' = Respond(cs, c, Fail(400, "Game name and players are required"))
                /\ sched' = sched
           ELSE /\ calls' = cs
                /\ sched' = Process(Schedule(Schedule(sched, Stmt(c, "BEGIN", 0), TRUE),
                                             Stmt(c, "INSERT games", 0), TRUE))
  /\ UNCHANGED <<server, db, oracle, last, prior, issued, crashed, faults>>

\* DELETE /api/games/game/:id arrives: lines 217-224
ArriveDelete ==
  /\ ~crashed
  /\ Len(calls) < MaxCalls
  /\ \E id \in Ids :
       LET c == Len(calls) + 1
       IN  /\ calls' = Append(calls, NewCall("deleteGame", [id |-> id]))
           /\ sched' = Process(Schedule(Schedule(sched, Stmt(c, "BEGIN", 0), TRUE),
                                        Stmt(c, "DELETE game_gamers", 0), TRUE))
  /\ UNCHANGED <<server, db, oracle, last, prior, issued, crashed, faults>>

\* POST /api/games/game/:id/gamers arrives: lines 250-261
ArriveAdd ==
  /\ ~crashed
  /\ Len(calls) < MaxCalls
  /\ \E req \in AddCalls :
       LET c  == Len(calls) + 1
           cs == Append(calls, NewCall("addGamer", req))
       IN  IF ~Truthy(req.gamer_name) \/ ~Truthy(trim(req.gamer_name))
           THEN /\ calls' = Respond(cs, c, Fail(400, "Gamer name is required"))
                /\ sched' = sched
           ELSE /\ calls' = cs
                /\ sched' = Schedule(sched, Stmt(c, "SELECT game_gamers", 0), FALSE)
  /\ UNCHANGED <<server, db, oracle, last, prior, issued, crashed, faults>>

\* a statement that runs completes: it takes effect, its callback runs, and
\* the queue goes on; or it fails with nobody to tell and the process ends,
\* the open transaction never committed
Complete ==
  /\ ~crashed
  /\ \E st \in sched.pending, fail \in BOOLEAN :
       /\ fail => (faults < MaxFaults /\ st.sql \in DataStatements)
       /\ LET call == calls[st.call]
              err  == SqlError(st, db, call.req, fail)
              n    == IF call.op = "createGame"
                      THEN Len(gamerNamesOf(call.req.gamers)) ELSE 0
              w    == Callback([db |-> db, sched |-> sched, calls |-> calls], st, err)
          IN  IF err /\ st.sql \in Unhandled
              THEN /\ crashed' = TRUE
                   /\ db' = Rollback(db)
                   /\ sched' = Idle
                   /\ calls' = calls
              ELSE /\ crashed' = FALSE
                   /\ db' = w.db
                   /\ sched' = StatementEnd(w.sched, st, n)
                   /\ calls' = w.calls
       /\ faults' = IF fail THEN faults + 1 ELSE faults
  /\ UNCHANGED <<server, oracle, last, prior, issued>>

NextConcurrent ==
  \/ ArriveCreate
  \/ ArriveDelete
  \/ ArriveAdd
  \/ Complete

SpecConcurrent == InitConcurrent /\ [][NextConcurrent]_vars

(***************************************************************************)
(* Properties of the playable query (checked under SpecPlayable)           *)
(***************************************************************************)
\* the candidate group G of a players parameter: its names after trimming,
\* blank entries dropped, as a set
Group(players) == IF players = Undefined THEN {} ELSE Range(parseNames(players))

\* the number of names the handler compares the players column with:
\* server.js counts the non-blank entries of the parameter, repeats included;
\* "server copy.js" counts every comma-separated entry
Counted(players) ==
  IF server = "server.js" THEN Len(parseNames(players)) ELSE Len(split(players))

\* the games of the store, each with the set of its owners
Catalog ==
  IF server = "server.js"
  THEN {[id |-> g.id, players |-> g.players, owners |-> Range(NamesOf(db, g.id))] :
          g \in Range(db.games)}
  ELSE {[id |-> r.rowid, players |-> r.players,
         owners |-> Range(ownersOf(r.gamers)) \ {<<>>}] : r \in Range(oracle)}

\* a playable query of a non-empty group has been answered with a list
PlayableAnswered ==
  /\ last.op = "playable"
  /\ last.res.status = 200
  /\ Group(last.req.players) # {}

Returned == {last.res.items[i].rowid : i \in 1..Len(last.res.items)}

C4_NeverWithoutOwnerInGroup ==
  (PlayableAnswered /\ server = "server.js") =>
    /\ Returned \subseteq {g.id : g \in Catalog}
    /\ \A g \in Catalog :
          g.id \in Returned => g.owners \cap Group(last.req.players) # {}

\* a game big enough for the group but owned by nobody in it (one with
\* owners, one without) is left out while another game is returned
C4_Witness ==
  /\ PlayableAnswered
  /\ server = "server.js"
  /\ Returned # {}
  /\ \E g \in Catalog :
        /\ g.id \notin Returned
        /\ g.players >= Counted(last.req.players)
        /\ g.owners # {}
        /\ g.owners \cap Group(last.req.players) = {}

\* C10: list_playable with a group that is empty after trimming fails with
\* the validation status, returns no list and issues no statement
C10_EmptyGroupRejected ==
  (last.op = "playable" /\ Group(last.req.players) = {}) =>
    /\ last.res.status = 400
    /\ last.stmts = 0

(***************************************************************************)
(* Properties of the mutating routes of server.js (checked under Spec)     *)
(***************************************************************************)
\* the number of game_gamers rows holding (game_id, gamer_name)
EdgeCount(d, game_id, gamer_name) ==
  Cardinality({i \in 1..Len(d.game_gamers) :
                 /\ d.game_gamers[i].game_id = game_id
                 /\ d.game_gamers[i].gamer_name = gamer_name})

\* C1: when an ownership-edge insert of create_game fails, the caller gets an
\* error and no id, and afterwards the store holds neither the new game row
\* nor any edge the call inserted: it is as it was before the call
C1_CreateAllOrNothing ==
  [][(last'.op = "createGame" /\ last'.insertErrors > 0) =>
       /\ last'.res.status = 500
       /\ last'.res.id = 0
       /\ db' = db
       /\ \A i \in 1..Len(db'.games) : db'.games[i].id # last'.gameId
       /\ \A i \in 1..Len(db'.game_gamers) :
             db'.game_gamers[i].id <= db.sqlite_sequence.game_gamers]_vars

\* a create_game of two owner names, one of whose inserts failed, on a store
\* that already holds a game
C1_Witness ==
  /\ last.op = "createGame"
  /\ last.insertErrors = 1
  /\ Len(gamerNamesOf(last.req.gamers)) = 2
  /\ Len(db.games) = 1
  /\ last.res.status = 500

\* C5: after a successful delete_game(id) no game_gamers row references id,
\* and the same delete_game(id) sent again right away answers NotFound
C5_DeleteCascades ==
  last.op = "deleteGame" =>
    /\ last.res.status = 200 =>
         /\ \A i \in 1..Len(db.game_gamers) : db.game_gamers[i].game_id # last.req.id
         /\ \A i \in 1..Len(db.games) : db.games[i].id # last.req.id
    /\ (prior = 200 /\ last.F = {}) => last.res.status = 404

\* delete_game(id) succeeded, was sent again, and answered 404 while rows of
\* another game remain
C5_Witness ==
  /\ last.op = "deleteGame"
  /\ prior = 200
  /\ last.res.status = 404
  /\ Len(db.game_gamers) > 0

\* C6: every game_gamers row references a row of games
C6_ReferentialIntegrity ==
  \A i \in 1..Len(db.game_gamers) :
     \E j \in 1..Len(db.games) : db.games[j].id = db.game_gamers[i].game_id

\* C7: when add_owner(game_id, name) succeeded and is sent again right away,
\* the second call answers that the gamer already exists, and exactly one
\* row for (game_id, name) exists
C7_SecondAddConflicts ==
  (last.op = "addGamer" /\ prior = 200) =>
    /\ EdgeCount(db, last.req.id, trim(last.req.gamer_name)) = 1
    /\ last.F = {} =>
         /\ last.res.status = 400
         /\ last.res.error = "Gamer already exists for this game"

\* the second of two add_owner calls, with a name that needs trimming, was
\* answered with the conflict
C7_Witness ==
  /\ last.op = "addGamer"
  /\ prior = 200
  /\ last.F = {}
  /\ last.res.status = 400
  /\ last.req.gamer_name # trim(last.req.gamer_name)

\* C8: remove_owner answers success exactly when a row matched (and then no
\* row for the pair is left), so that the same call sent again right after a
\* success answers NotFound
C8_RemoveThenNotFound ==
  [][last'.op = "removeGamer" =>
       LET matched == /\ Truthy(last'.req.gamer_name)
                      /\ SelectGamer(db, last'.req.id, last'.req.gamer_name)
       IN  /\ last'.res.status = 200 => matched
           /\ (matched /\ last'.F = {}) =>
                /\ last'.res.status = 200
                /\ ~SelectGamer(db', last'.req.id, last'.req.gamer_name)
           /\ (~matched /\ last'.F = {} /\ Truthy(last'.req.gamer_name)) =>
                last'.res.status = 404
           /\ (prior' = 200 /\ last'.F = {}) => last'.res.status = 404]_vars

\* remove_owner succeeded, was sent again, and answered 404
C8_Witness ==
  /\ last.op = "removeGamer"
  /\ prior = 200
  /\ last.F = {}
  /\ last.res.status = 404

\* C9: after a successful create_game the new game has exactly one edge per
\* distinct non-empty trimmed name of initial_owner_names
C9_OneEdgePerDistinctName ==
  (last.op = "createGame" /\ last.res.status = 200) =>
    LET names  == NamesOf(db, last.res.id)
        wanted == Range(gamerNamesOf(last.req.gamers))
    IN  /\ Range(names) = wanted
        /\ Len(names) = Cardinality(wanted)

\* C11: when delete_game(id) answers NotFound the store is exactly as it was
\* before the call, the rows of game_gamers that carried id included
C11_NotFoundLeavesStore ==
  [][(last'.op = "deleteGame" /\ last'.res.status = 404) =>
       /\ db' = db
       /\ NamesOf(db', last'.req.id) = NamesOf(db, last'.req.id)]_vars

\* delete_game(id) answered NotFound and a game_gamers row carrying id, which
\* the handler deleted before it looked for the game, is in the store
C11_Witness ==
  /\ last.op = "deleteGame"
  /\ last.res.status = 404
  /\ last.F = {}
  /\ NamesOf(db, last.req.id) # <<>>

\* req.body.players is not a positive integer: absent, not a number, zero or
\* negative
NotPositiveInteger(v) ==
  \/ v.type = "undefined"
  \/ parseInt(v.txt).nan
  \/ parseInt(v.txt).val <= 0

\* C12: create_game with an empty name, or with players that is not a positive
\* integer, answers the validation status, issues no statement and leaves the
\* store unchanged
C12_CreateValidates ==
  [][(/\ last'.op = "createGame"
      /\ \/ ~Truthy(last'.req.game)
         \/ NotPositiveInteger(last'.req.players)) =>
       /\ last'.res.status = 400
       /\ last'.stmts = 0
       /\ db' = db]_vars

\* l and m hold the same values the same number of times
SameBag(l, m) ==
  /\ Len(l) = Len(m)
  /\ \A x \in Range(l) \cup Range(m) :
        Cardinality({i \in 1..Len(l) : l[i] = x}) =
          Cardinality({i \in 1..Len(m) : m[i] = x})

\* the names a comma-joined owner list holds
Listed(gamer_list) == IF gamer_list = <<>> THEN <<>> ELSE split(gamer_list)

\* C13: list_all returns one record per game of the store, in ascending order
\* of game name, each with exactly the names of the game's game_gamers rows
\* (none for a game without rows) and with owners_in_group unset
C13_ListAllComplete ==
  (last.op = "listAll" /\ last.res.status = 200) =>
    LET items == last.res.items
    IN  /\ Len(items) = Len(db.games)
        /\ \A j \in 1..Len(db.games) :
              \E i \in 1..Len(items) :
                 /\ items[i].rowid = db.games[j].id
                 /\ items[i].game = db.games[j].game
                 /\ items[i].players = db.games[j].players
        /\ \A i \in 1..(Len(items) - 1) : ~StrLess(items[i + 1].game, items[i].game)
        /\ \A i \in 1..Len(items) :
              /\ SameBag(Listed(items[i].gamer_list), NamesOf(db, items[i].rowid))
              /\ items[i].owners_in_group = Null

\* list_all of two games, the later-created one first by name, one of them
\* without owners and listed with an empty owner list
C13_Witness ==
  /\ last.op = "listAll"
  /\ last.res.status = 200
  /\ Len(last.res.items) = 2
  /\ last.res.items[1].rowid = 2
  /\ \E i \in 1..2 : last.res.items[i].gamer_list = <<>>
  /\ \E i \in 1..2 : last.res.items[i].gamer_list # <<>>

\* the error kind of a response, by what the handler reports
ErrorKind(res) ==
  CASE res.status = 200 -> "none"
    [] res.error \in {"Game name and players are required",
                      "Gamer name is required", "Players parameter is required",
                      "At least one player name is required"} -> "ValidationError"
    [] res.error = "Gamer already exists for this game" -> "ConflictError"
    [] res.error \in {"Game not found", "Gamer not found for this game"} -> "NotFound"
    [] OTHER -> "StoreError"

\* requests whose answers, on any store, cover the validation, not-found and
\* store-failure outcomes of the routes
Probes ==
  {[op |-> "createGame",
    req |-> [game |-> <<>>, players |-> JsUndefined, gamers |-> Undefined]],
   [op |-> "addGamer", req |-> [id |-> 1, gamer_name |-> <<>>]],
   [op |-> "removeGamer", req |-> [id |-> 1, gamer_name |-> Undefined]],
   [op |-> "removeGamer", req |-> [id |-> 1, gamer_name |-> <<",">>]],
   [op |-> "playable", req |-> [players |-> Undefined]],
   [op |-> "listAll", req |-> <<>>]}

\* C14: two error answers of different kinds never have the same status; in
\* particular the duplicate-owner conflict of add_owner has another status
\* than its empty-name validation failure
C14_KindsHaveOwnStatus ==
  last.res.status # 200 =>
    \A p \in Probes : \A F \in SUBSET {1} :
       LET other == Handle(p.op, p.req, db, F).res
       IN  (other.status # 200 /\ ErrorKind(other) # ErrorKind(last.res))
             => other.status # last.res.status

\* C19: remove_owner matches the name as add_owner stored it: a successful
\* add_owner(game_id, n) followed by remove_owner(game_id, n) succeeds and
\* leaves the rows of game_gamers as they were before the add, also when n
\* has blanks around it
C19_RemoveUndoesAdd ==
  [][(/\ last.op = "addGamer"
      /\ last.res.status = 200
      /\ last'.op = "removeGamer"
      /\ last'.req = last.req
      /\ last'.F = {}) =>
       /\ last'.res.status = 200
       /\ db'.game_gamers = SubSeq(db.game_gamers, 1, Len(db.game_gamers) - 1)]_vars

\* C20: the id a successful create_game returns was returned by no earlier
\* successful create_game, whatever was deleted or rolled back in between
C20_IdsNeverReused ==
  [][(last'.op = "createGame" /\ last'.res.status = 200) =>
       /\ last'.res.id \notin issued
       /\ \A i \in 1..Len(db.games) : db.games[i].id # last'.res.id]_vars

\* a create_game was answered with id 2 after the game with id 1 had been
\* created and deleted
C20_Witness ==
  /\ last.op = "createGame"
  /\ last.res.status = 200
  /\ last.res.id = 2
  /\ issued = {1, 2}
  /\ Len(db.games) = 1

(***************************************************************************)
(* Properties of requests in flight together (checked under SpecConcurrent)*)
(***************************************************************************)
\* nothing runs or waits on the connection: every request in flight is over
Quiescent == sched.queue = <<>> /\ sched.pending = {}

\* request c has issued the statement and it has not completed yet
Outstanding(c, sql) ==
  \/ \E st \in sched.pending : st.call = c /\ st.sql = sql
  \/ \E i \in 1..Len(sched.queue) :
        sched.queue[i].st.call = c /\ sched.queue[i].st.sql = sql

\* the requests that open a transaction: a create_game or delete_game that
\* was not turned away by validation
Transactional ==
  {c \in 1..Len(calls) :
     calls[c].op \in {"createGame", "deleteGame"} /\ calls[c].res.status # 400}

\* C15: with create_game and delete_game calls in flight together, the writes
\* of a call are kept or undone by its own COMMIT or ROLLBACK only, so that,
\* once all calls are over, the game of every create_game that reported
\* success is in the store unless one of the calls deleted that id
C15_OwnCommitOrRollbackOnly ==
  Quiescent =>
    \A c \in Transactional :
       (calls[c].op = "createGame" /\ calls[c].res.status = 200) =>
          \/ \E i \in 1..Len(db.games) : db.games[i].id = calls[c].res.id
          \/ \E d \in 1..Len(calls) :
                calls[d].op = "deleteGame" /\ calls[d].req.id = calls[c].res.id

\* C16: once two add_owner calls of the same (game_id, name) that were in
\* flight together are over, one of them succeeded at most, the other was
\* answered with the conflict, and one row for the pair exists
C16_OneAddWins ==
  (/\ Quiescent
   /\ Len(calls) = 2
   /\ faults = 0
   /\ calls[1].op = "addGamer"
   /\ calls[2] = [calls[1] EXCEPT !.res = calls[2].res]
   /\ Truthy(trim(calls[1].req.gamer_name))) =>
    /\ EdgeCount(db, calls[1].req.id, trim(calls[1].req.gamer_name)) = 1
    /\ \E c \in 1..2 : calls[c].res.error = "Gamer already exists for this game"
    /\ \A c \in 1..2 : calls[c].res.status \in {200, 400}

\* C17: while the caller of a create_game or delete_game holds an error
\* answer, the ROLLBACK of that call has completed: it is neither waiting nor
\* running, and no transaction is open on the connection
C17_ErrorAfterRollback ==
  \A c \in Transactional :
     calls[c].res.status \in {404, 500} =>
        /\ ~Outstanding(c, "ROLLBACK")
        /\ (~crashed => calls[c].ended = 1)

\* C18: a create_game or delete_game sends one answer at most and ends the
\* transaction it began once at most; COMMIT of create_game is issued when
\* every ownership-edge insert has completed; and once all calls are over,
\* each of them has begun one transaction, ended it once and sent exactly one
\* answer, and no transaction is open
C18_TransactionLifecycle ==
  /\ \A c \in Transactional :
        /\ calls[c].responses <= 1
        /\ calls[c].ended <= calls[c].began
        /\ calls[c].began <= 1
        /\ (calls[c].op = "createGame" /\ Outstanding(c, "COMMIT")) =>
              /\ ~Outstanding(c, "prepare")
              /\ ~Outstanding(c, "stmt.run")
              /\ calls[c].insertCount = Len(gamerNamesOf(calls[c].req.gamers))
  /\ Quiescent =>
        /\ db.tx = <<>>
        /\ \A c \in Transactional :
              /\ calls[c].began = 1
              /\ calls[c].ended = 1
              /\ calls[c].responses = 1

====
